---- MODULE Spec2Model ----
(***************************************************************************)
(* A model of src/main.py: the profile-frame generator.  process_image     *)
(* opens an upload and calls add_simple_watermark, which locates a face    *)
(* (detect_additional_faces, with fallback_face_position as the heuristic  *)
(* anchor), plans the ring (calculate_optimal_circle_sizes, followed by    *)
(* the validation / correction block), formats the text and lays its       *)
(* characters out along the ring.                                          *)
(*                                                                         *)
(* Numbers.  Radii, coordinates and areas are Python ints.  The float      *)
(* products int(m * 0.85), int(m * 0.65), int(m * 0.75), int(m * 0.55),    *)
(* int(h * 0.15), int(h * 0.22) and int(h * 0.30) equal floor(m * p / 100) *)
(* for every 0 <= m <= 3,000,000 (IEEE-754 doubles, checked by             *)
(* enumeration); int(h * 0.35) does not (h = 180 gives 62), and is         *)
(* modelled by the rounding of the double product, see IntTimes035.        *)
(* Angles are doubles in the code; the model keeps them exact, in units    *)
(* of pi / (8 * n) radians (22.5 / n degrees) for a text of n characters.  *)
(***************************************************************************)
EXTENDS Integers, Sequences, FiniteSets, TLC

VARIABLES
    pc,                    \* position in process_image / add_simple_watermark
    width, height,         \* image.size
    text,                  \* watermark_text, a sequence of characters
    all_faces,             \* detect_additional_faces: all_faces
    faces,                 \* the list detect_additional_faces returns
    face_center_x, face_center_y,
    inner_radius, outer_radius, max_available_radius,
    first_outer_radius,    \* history: outer_radius as calculate_optimal_circle_sizes returned it
    corrected,             \* history: the conservative recomputation ran
    display_text,          \* add_simple_watermark: display_text
    angles,                \* the angle of each character drawn, in units of pi / (8 * n)
    result,                \* what process_image returned: "pending", "image" or "None"
    error                  \* the stage whose exception process_image caught, or "none"

vars == <<pc, width, height, text, all_faces, faces, face_center_x, face_center_y,
          inner_radius, outer_radius, max_available_radius, first_outer_radius,
          corrected, display_text, angles, result, error>>

---------------------------------------------------------------------------
(* Python's min and max.                                                   *)
Min2(a, b) == IF a <= b THEN a ELSE b

Max2(a, b) == IF a >= b THEN a ELSE b

(* int(m * p / 100) for the float factors 0.85, 0.65, 0.75, 0.55, 0.15,    *)
(* 0.22 and 0.30, on which truncating the double product and the exact     *)
(* floor agree.                                                            *)
IntTimesPct(m, p) == (m * p) \div 100

(* The least power of two that is >= k, from pow upwards.                  *)
RECURSIVE Pow2AtLeast(_, _)
Pow2AtLeast(k, pow) == IF pow >= k THEN pow ELSE Pow2AtLeast(k, 2 * pow)

(* int(h * 0.35).  The double 0.35 is 0.35 - 0.4 / 2^54, so when 0.35 * h  *)
(* is an integer k = 7j (h = 20j) the exact product lies 8j / 2^54 below   *)
(* k.  It rounds to k when that is at most half an ulp, 2^ceil(log2 k) /   *)
(* 2^54 (a tie goes to k, whose significand is even); otherwise the        *)
(* product is a double just below k and int() gives k - 1.                 *)
IntTimes035(h) ==
    IF h > 0 /\ h % 20 = 0 /\ 8 * (h \div 20) > Pow2AtLeast(7 * (h \div 20), 1)
    THEN 7 * (h \div 20) - 1
    ELSE (h * 35) \div 100

---------------------------------------------------------------------------
(* fallback_face_position: the anchor keyed on aspect_ratio = height /     *)
(* width.  The float comparisons aspect_ratio > 2.0, > 1.6 and > 1.3 are   *)
(* decided as the exact ratios are: a ratio of integers that exceeds the   *)
(* threshold exceeds it by at least 1 / (10 * width).  First the mutant    *)
(* whose tallest bucket takes the ratio 2.0 itself.                        *)
fallback_face_position_inclusive(w, h) ==
    IF h >= 2 * w THEN <<w \div 2, IntTimesPct(h, 15)>>
    ELSE IF 5 * h > 8 * w THEN <<w \div 2, IntTimesPct(h, 22)>>
    ELSE IF 10 * h > 13 * w THEN <<w \div 2, IntTimesPct(h, 30)>>
    ELSE <<w \div 2, IntTimes035(h)>>

fallback_face_position(w, h) ==
    IF h > 2 * w THEN <<w \div 2, IntTimesPct(h, 15)>>
    ELSE IF 5 * h > 8 * w THEN <<w \div 2, IntTimesPct(h, 22)>>
    ELSE IF 10 * h > 13 * w THEN <<w \div 2, IntTimesPct(h, 30)>>
    ELSE <<w \div 2, IntTimes035(h)>>

---------------------------------------------------------------------------
(* Ring geometry.                                                          *)
min_radius == 30

min_ring_width == 20

(* The mutant of calculate_smart_radius that forgets the minimum usable    *)
(* size.                                                                   *)
calculate_smart_radius_unfloored(x, y, w, h) ==
    LET max_possible_radius == Min2(Min2(x, w - x), Min2(y, h - y))
        safe_margin == Min2(10, max_possible_radius \div 20)
    IN  max_possible_radius - safe_margin

calculate_smart_radius(x, y, w, h) ==
    LET max_possible_radius == Min2(Min2(x, w - x), Min2(y, h - y))
        safe_margin == Min2(10, max_possible_radius \div 20)
        max_safe_radius == max_possible_radius - safe_margin
    IN  Max2(min_radius, max_safe_radius)

(* The mutant of calculate_optimal_circle_sizes that rounds the two        *)
(* products to the nearest integer instead of truncating them.             *)
calculate_optimal_circle_sizes_rounded(x, y, w, h) ==
    LET max_radius == calculate_smart_radius(x, y, w, h)
        outer0 == Max2(50, (max_radius * 85 + 50) \div 100)
        inner0 == Max2(35, (max_radius * 65 + 50) \div 100)
        inner1 == IF outer0 - inner0 < min_ring_width
                  THEN Max2(20, outer0 - min_ring_width) ELSE inner0
    IN  IF outer0 > max_radius
        THEN [inner |-> Max2(15, max_radius - min_ring_width),
              outer |-> max_radius, max |-> max_radius]
        ELSE [inner |-> inner1, outer |-> outer0, max |-> max_radius]

(* calculate_optimal_circle_sizes returns (inner_radius, outer_radius,     *)
(* max_radius).                                                            *)
calculate_optimal_circle_sizes(x, y, w, h) ==
    LET max_radius == calculate_smart_radius(x, y, w, h)
        outer0 == Max2(50, IntTimesPct(max_radius, 85))
        inner0 == Max2(35, IntTimesPct(max_radius, 65))
        inner1 == IF outer0 - inner0 < min_ring_width
                  THEN Max2(20, outer0 - min_ring_width) ELSE inner0
    IN  IF outer0 > max_radius
        THEN [inner |-> Max2(15, max_radius - min_ring_width),
              outer |-> max_radius, max |-> max_radius]
        ELSE [inner |-> inner1, outer |-> outer0, max |-> max_radius]

validate_circle_bounds(x, y, radius, w, h) ==
    LET fits_horizontally == x - radius >= 0 /\ x + radius <= w
        fits_vertically == y - radius >= 0 /\ y + radius <= h
    IN  fits_horizontally /\ fits_vertically

(* add_simple_watermark, "Recalculate with more conservative sizing".      *)
conservative_circle_sizes(x, y, w, h) ==
    LET max_safe == calculate_smart_radius(x, y, w, h)
    IN  [inner |-> Max2(25, IntTimesPct(max_safe, 55)),
         outer |-> Max2(40, IntTimesPct(max_safe, 75))]

(* add_simple_watermark, "Final ring width check": the inner radius used.  *)
final_ring_width_check(inner, outer) ==
    IF outer - inner < 15 THEN Max2(15, outer - 20) ELSE inner

---------------------------------------------------------------------------
(* Face location.  A face is the dictionary all_faces holds: x, y, width,  *)
(* height and area = width * height (its 'cascade' name is never read).    *)
Face(x, y, w, h) == [x |-> x, y |-> y, width |-> w, height |-> h, area |-> w * h]

overlap_area(face, existing_face) ==
    LET overlap_x == Max2(0, Min2(face.x + face.width,
                                  existing_face.x + existing_face.width)
                             - Max2(face.x, existing_face.x))
        overlap_y == Max2(0, Min2(face.y + face.height,
                                  existing_face.y + existing_face.height)
                             - Max2(face.y, existing_face.y))
    IN  overlap_x * overlap_y

(* The mutant of overlaps_significantly that measures the overlap against  *)
(* the larger face.                                                        *)
overlaps_significantly_of_larger(face, existing_face) ==
    2 * overlap_area(face, existing_face) > Max2(face.area, existing_face.area)

(* overlap_area > min_area * 0.5, min_area the smaller of the two areas.   *)
overlaps_significantly(face, existing_face) ==
    2 * overlap_area(face, existing_face) > Min2(face.area, existing_face.area)

(* The mutant of is_duplicate that compares face with the most recently    *)
(* kept face only.                                                         *)
is_duplicate_of_last(face, unique_faces) ==
    /\ unique_faces # <<>>
    /\ overlaps_significantly(face, unique_faces[Len(unique_faces)])

(* The inner loop: face duplicates one of unique_faces.                    *)
is_duplicate(face, unique_faces) ==
    \E i \in 1..Len(unique_faces) : overlaps_significantly(face, unique_faces[i])

(* The outer loop from all_faces[i] on, unique_faces being what is kept    *)
(* so far.                                                                 *)
RECURSIVE remove_duplicates(_, _, _)
remove_duplicates(faceList, i, unique_faces) ==
    IF i > Len(faceList) THEN unique_faces
    ELSE remove_duplicates(faceList, i + 1,
             IF is_duplicate(faceList[i], unique_faces)
             THEN unique_faces ELSE Append(unique_faces, faceList[i]))

(* max(unique_faces, key = area) from unique_faces[i] on: the running best *)
(* is replaced only by a strictly larger face, so the first of several     *)
(* largest wins.                                                           *)
RECURSIVE max_by_area(_, _, _)
max_by_area(unique_faces, i, best) ==
    IF i > Len(unique_faces) THEN best
    ELSE max_by_area(unique_faces, i + 1,
             IF unique_faces[i].area > best.area THEN unique_faces[i] ELSE best)

(* The mutant of best_face that keeps the last of several largest faces.   *)
RECURSIVE max_by_area_last(_, _, _)
max_by_area_last(unique_faces, i, best) ==
    IF i > Len(unique_faces) THEN best
    ELSE max_by_area_last(unique_faces, i + 1,
             IF unique_faces[i].area >= best.area THEN unique_faces[i] ELSE best)

best_face_last(unique_faces) == max_by_area_last(unique_faces, 2, unique_faces[1])

best_face(unique_faces) == max_by_area(unique_faces, 2, unique_faces[1])

(* detect_additional_faces from "if all_faces:" on: what it returns,       *)
(* (face_center_x, face_center_y, faces).                                  *)
select_face(faceList, w, h) ==
    IF faceList # <<>>
    THEN LET unique_faces == remove_duplicates(faceList, 1, <<>>)
             best == best_face(unique_faces)
         IN  [x |-> best.x + best.width \div 2,
              y |-> best.y + best.height \div 2,
              faces |-> unique_faces]
    ELSE LET fb == fallback_face_position(w, h)
         IN  [x |-> fb[1], y |-> fb[2], faces |-> <<>>]

---------------------------------------------------------------------------
(* Text.  A string is a sequence of characters; str.lower and str.upper    *)
(* map the letters of the model's alphabet and leave the rest alone.       *)
LowerLetters == <<"a", "h", "i", "m", "o", "p", "r", "s", "t", "u", "y">>

UpperLetters == <<"A", "H", "I", "M", "O", "P", "R", "S", "T", "U", "Y">>

lower_char(c) ==
    IF \E i \in 1..Len(UpperLetters) : UpperLetters[i] = c
    THEN LowerLetters[CHOOSE i \in 1..Len(UpperLetters) : UpperLetters[i] = c]
    ELSE c

upper_char(c) ==
    IF \E i \in 1..Len(LowerLetters) : LowerLetters[i] = c
    THEN UpperLetters[CHOOSE i \in 1..Len(LowerLetters) : LowerLetters[i] = c]
    ELSE c

lower(str) == [i \in 1..Len(str) |-> lower_char(str[i])]

upper(str) == [i \in 1..Len(str) |-> upper_char(str[i])]

(* needle in str                                                           *)
contains(str, needle) ==
    \E i \in 0..(Len(str) - Len(needle)) :
        SubSeq(str, i + 1, i + Len(needle)) = needle

canonical_phrase ==
    <<"#", "I", " ", "S", "U", "P", "P", "O", "R", "T", " ",
      "A", "M", "I", "T", " ", "M", "A", "U", "R", "Y", "A">>

mentions_support_amit(str) ==
    /\ contains(lower(str), <<"s", "u", "p", "p", "o", "r", "t">>)
    /\ contains(lower(str), <<"a", "m", "i", "t">>)

(* The mutant of format_text that upper-cases without the '#' prefix.      *)
format_text_unprefixed(str) ==
    IF mentions_support_amit(str) THEN canonical_phrase ELSE upper(str)

(* add_simple_watermark, "Format text like LinkedIn": display_text.        *)
format_text(str) ==
    IF mentions_support_amit(str) THEN canonical_phrase ELSE <<"#">> \o upper(str)

(* Angles, in units of pi / (8 * n) radians for a text of n characters:    *)
(* 2 * pi is 16 * n units.                                                 *)
two_pi(n) == 16 * n

(* The mutant of angle_per_char that spreads the text over the whole       *)
(* circle.                                                                 *)
angle_per_char_full_circle(n) == two_pi(n) \div n

(* (2 * math.pi * 0.75) / text_length                                      *)
angle_per_char(n) == ((two_pi(n) * 3) \div 4) \div n

(* -math.pi * 0.375                                                        *)
start_angle(n) == -(((two_pi(n) \div 2) * 3) \div 8)

(* The angle of character i, i = 0 .. n - 1, of the drawing loop.          *)
char_angle(i, n) == start_angle(n) + i * angle_per_char(n)

---------------------------------------------------------------------------
(* Bounds of the model.                                                    *)
MaxTinyDim == 8     \* SpecGeom: every canvas side 1 .. MaxTinyDim, and MaxDim

MaxDim == 230       \* SpecGeom: the side of the large canvas

MaxPos == 1         \* SpecDedup: faces start at 0, 10, .., 10 * MaxPos

MaxFaces == 3       \* SpecDedup: the detector passes yield at most MaxFaces faces

MaxTokens == 3      \* SpecText: a text is at most MaxTokens tokens

---------------------------------------------------------------------------
(* The steps of process_image.                                             *)
num_cascades == 4

(* The values the variables hold before the step that sets them.           *)
NoFaces == all_faces = <<>> /\ faces = <<>> /\ face_center_x = 0 /\ face_center_y = 0

NoRing ==
    /\ inner_radius = 0 /\ outer_radius = 0 /\ max_available_radius = 0
    /\ first_outer_radius = 0 /\ corrected = FALSE

NoLayout == display_text = <<>> /\ angles = <<>>

NoResult == result = "pending" /\ error = "none"

(* process_image: Image.open, and add_simple_watermark up to image.copy(). *)
(* Bytes that are no image raise, and process_image returns None.          *)
OpenImage ==
    /\ pc = "open"
    /\ \/ /\ pc' = "convert"
          /\ UNCHANGED <<result, error>>
       \/ /\ pc' = "done"
          /\ result' = "None"
          /\ error' = "decode"
    /\ UNCHANGED <<width, height, text, all_faces, faces, face_center_x, face_center_y,
                   inner_radius, outer_radius, max_available_radius,
                   first_outer_radius, corrected, display_text, angles>>

(* detect_additional_faces before its try: image.convert('RGB'), np.array  *)
(* and the two cv2.cvtColor calls.  An exception here is outside every     *)
(* handler of detect_additional_faces and of add_simple_watermark: it is   *)
(* caught by process_image, which returns None.                            *)
ConvertForDetector ==
    /\ pc = "convert"
    /\ \/ /\ pc' = "cascades"
          /\ UNCHANGED <<result, error>>
       \/ /\ pc' = "done"
          /\ result' = "None"
          /\ error' = "convert"
    /\ UNCHANGED <<width, height, text, all_faces, faces, face_center_x, face_center_y,
                   inner_radius, outer_radius, max_available_radius,
                   first_outer_radius, corrected, display_text, angles>>

(* The faces a cascade may report on a w x h canvas: squares of at least   *)
(* minSize = 20 and at most maxSize = (w // 2, h // 2), inside the canvas. *)
PipelineFaces(w, h) ==
    IF w \div 2 >= 20 /\ h \div 2 >= 20
    THEN LET big == Min2(w \div 2, h \div 2)
         IN  { Face(0, 0, 20, 20),
               Face(w - 20, h - 20, 20, 20),
               Face((w - 20) \div 2, (h - 20) \div 2, 20, 20),
               Face(w \div 4, h \div 4, big, big) }
    ELSE {}

(* What one pass of the cascade loop adds to all_faces: nothing when the   *)
(* cascade raises (except: continue) or finds nothing, else its faces.     *)
CascadeOutcomes(w, h) ==
    { [raised |-> TRUE, found |-> <<>>], [raised |-> FALSE, found |-> <<>>] }
    \cup { [raised |-> FALSE, found |-> <<f>>] : f \in PipelineFaces(w, h) }

cascade_faces(outcome) == IF outcome.raised THEN <<>> ELSE outcome.found

(* The cascade loop over cascade_files.                                    *)
RunCascades ==
    /\ pc = "cascades"
    /\ \E r \in [1..num_cascades -> CascadeOutcomes(width, height)] :
          all_faces' = cascade_faces(r[1]) \o cascade_faces(r[2])
                       \o cascade_faces(r[3]) \o cascade_faces(r[4])
    /\ pc' = "select"
    /\ UNCHANGED <<width, height, text, faces, face_center_x, face_center_y,
                   inner_radius, outer_radius, max_available_radius,
                   first_outer_radius, corrected, display_text, angles, result, error>>

(* detect_additional_faces from "if all_faces:" to its return.             *)
SelectFace ==
    /\ pc = "select"
    /\ LET r == select_face(all_faces, width, height)
       IN  /\ face_center_x' = r.x
           /\ face_center_y' = r.y
           /\ faces' = r.faces
    /\ pc' = "plan"
    /\ UNCHANGED <<width, height, text, all_faces,
                   inner_radius, outer_radius, max_available_radius,
                   first_outer_radius, corrected, display_text, angles, result, error>>

(* add_simple_watermark: the call of calculate_optimal_circle_sizes.       *)
PlanRing ==
    /\ pc = "plan"
    /\ LET s == calculate_optimal_circle_sizes(face_center_x, face_center_y, width, height)
       IN  /\ inner_radius' = s.inner
           /\ outer_radius' = s.outer
           /\ max_available_radius' = s.max
           /\ first_outer_radius' = s.outer
    /\ pc' = "validate"
    /\ UNCHANGED <<width, height, text, all_faces, faces, face_center_x, face_center_y,
                   corrected, display_text, angles, result, error>>

(* add_simple_watermark: "Validate that circles fit within image bounds"   *)
(* and "Final ring width check"; the ellipses are drawn with the radii     *)
(* this leaves.                                                            *)
ValidateAndCorrect ==
    /\ pc = "validate"
    /\ LET fits == validate_circle_bounds(face_center_x, face_center_y,
                                          outer_radius, width, height)
           c == conservative_circle_sizes(face_center_x, face_center_y, width, height)
           outer == IF fits THEN outer_radius ELSE c.outer
           inner == IF fits THEN inner_radius ELSE c.inner
       IN  /\ outer_radius' = outer
           /\ inner_radius' = final_ring_width_check(inner, outer)
           /\ corrected' = ~fits
    /\ pc' = "format"
    /\ UNCHANGED <<width, height, text, all_faces, faces, face_center_x, face_center_y,
                   max_available_radius, first_outer_radius,
                   display_text, angles, result, error>>

(* add_simple_watermark: "Format text like LinkedIn".                      *)
FormatText ==
    /\ pc = "format"
    /\ display_text' = format_text(text)
    /\ pc' = "layout"
    /\ UNCHANGED <<width, height, text, all_faces, faces, face_center_x, face_center_y,
                   inner_radius, outer_radius, max_available_radius,
                   first_outer_radius, corrected, angles, result, error>>

(* add_simple_watermark: the loop that draws each character, at            *)
(* angle = start_angle + i * angle_per_char.                               *)
LayoutText ==
    /\ pc = "layout"
    /\ angles' = [k \in 1..Len(display_text) |-> char_angle(k - 1, Len(display_text))]
    /\ pc' = "composite"
    /\ UNCHANGED <<width, height, text, all_faces, faces, face_center_x, face_center_y,
                   inner_radius, outer_radius, max_available_radius,
                   first_outer_radius, corrected, display_text, result, error>>

(* Image.alpha_composite, and process_image returns the image.             *)
Composite ==
    /\ pc = "composite"
    /\ result' = "image"
    /\ pc' = "done"
    /\ UNCHANGED <<width, height, text, all_faces, faces, face_center_x, face_center_y,
                   inner_radius, outer_radius, max_available_radius,
                   first_outer_radius, corrected, display_text, angles, error>>

---------------------------------------------------------------------------
(* Spec: process_image on an upload.                                       *)
PipelineCanvases ==
    { <<800, 800>>, <<1000, 2000>>, <<1000, 2001>>, <<100, 170>>,
      <<100, 140>>, <<180, 180>>, <<40, 40>>, <<300, 200>> }

default_text ==
    <<"I", " ", "s", "u", "p", "p", "o", "r", "t", " ",
      "A", "M", "I", "T", " ", "M", "a", "u", "r", "y", "a">>

PipelineTexts == { default_text, <<"h", "i">> }

Init ==
    /\ pc = "open"
    /\ \E c \in PipelineCanvases : width = c[1] /\ height = c[2]
    /\ text \in PipelineTexts
    /\ NoFaces /\ NoRing /\ NoLayout /\ NoResult

Next ==
    \/ OpenImage
    \/ ConvertForDetector
    \/ RunCascades
    \/ SelectFace
    \/ PlanRing
    \/ ValidateAndCorrect
    \/ FormatText
    \/ LayoutText
    \/ Composite

Spec == Init /\ [][Next]_vars

---------------------------------------------------------------------------
(* SpecGeom: the ring planning of add_simple_watermark on every anchor of  *)
(* a canvas, 0 <= x <= width and 0 <= y <= height.                         *)
GeomDims == (1..MaxTinyDim) \cup {MaxDim}

InitGeom ==
    /\ pc = "plan"
    /\ width \in GeomDims
    /\ height \in GeomDims
    /\ face_center_x \in 0..width
    /\ face_center_y \in 0..height
    /\ text = <<>> /\ all_faces = <<>> /\ faces = <<>>
    /\ NoRing /\ NoLayout /\ NoResult

NextGeom == PlanRing \/ ValidateAndCorrect

SpecGeom == InitGeom /\ [][NextGeom]_vars

---------------------------------------------------------------------------
(* SpecDedup: detect_additional_faces on what the cascade passes yielded.  *)
FaceSides == {20, 25}

DedupFaces ==
    { Face(10 * i, y, w, h) : i \in 0..MaxPos, y \in {0, 10}, w \in FaceSides, h \in FaceSides }

DedupInputs == UNION { [1..n -> DedupFaces] : n \in 0..MaxFaces }

InitDedup ==
    /\ pc = "select"
    /\ width = 100 /\ height = 100
    /\ all_faces \in DedupInputs
    /\ text = <<>> /\ faces = <<>> /\ face_center_x = 0 /\ face_center_y = 0
    /\ NoRing /\ NoLayout /\ NoResult

NextDedup == SelectFace

SpecDedup == InitDedup /\ [][NextDedup]_vars

---------------------------------------------------------------------------
(* SpecText: the text formatting and the arc layout on every text built    *)
(* from a few tokens.                                                      *)
Tokens ==
    { <<"s", "u", "p", "p", "o", "r", "t">>, <<"A", "m", "i", "t">>,
      <<"h", "i">>, <<" ">>, <<"#">>, <<"I">> }

RECURSIVE TextsUpTo(_)
TextsUpTo(n) ==
    IF n = 0 THEN { <<>> }
    ELSE TextsUpTo(n - 1) \cup { t \o k : t \in TextsUpTo(n - 1), k \in Tokens }

InitText ==
    /\ pc = "format"
    /\ width = 100 /\ height = 100
    /\ text \in TextsUpTo(MaxTokens)
    /\ NoFaces /\ NoRing /\ NoLayout /\ NoResult

NextText == FormatText \/ LayoutText

SpecText == InitText /\ [][NextText]_vars

---------------------------------------------------------------------------
(* Properties.                                                             *)

(* The ring has been planned and add_simple_watermark goes on to draw it.  *)
RingPlanned == pc \in {"format", "layout", "composite"} \/ (pc = "done" /\ result = "image")

(* C1. Boundedness: once planning and the validation / correction block    *)
(* are through, the disk of outer_radius around the anchor lies inside the *)
(* canvas (no path of the code signals GeometryInfeasible instead).        *)
C1_Boundedness ==
    RingPlanned =>
        /\ face_center_x - outer_radius >= 0
        /\ face_center_x + outer_radius <= width
        /\ face_center_y - outer_radius >= 0
        /\ face_center_y + outer_radius <= height

(* C2. Band-width floor: the radii used for drawing satisfy                *)
(* outer_radius - inner_radius >= 15, hence inner_radius < outer_radius.   *)
C2_BandWidthFloor ==
    RingPlanned =>
        /\ outer_radius - inner_radius >= 15
        /\ inner_radius < outer_radius

(* C2, witness: a ring planned through the conservative recomputation,     *)
(* with a band of exactly the floor.                                       *)
C2_Witness == RingPlanned /\ corrected /\ outer_radius - inner_radius = 15

(* The 800 x 800 scenario: the ring is planned and no detector pass found  *)
(* a candidate.                                                            *)
Scenario800 == RingPlanned /\ width = 800 /\ height = 800 /\ all_faces = <<>>

Scenario1000x2000 == pc = "plan" /\ width = 1000 /\ height = 2000 /\ all_faces = <<>>

(* C4 as stated. On a 1000 x 2000 canvas with no detector output the       *)
(* anchor is (500, 150), with an empty candidate list.                     *)
C4_Fallback_Original ==
    Scenario1000x2000 => face_center_x = 500 /\ face_center_y = 150 /\ faces = <<>>

(* C4 as amended. On a 1000 x 2000 canvas with no detector output the      *)
(* anchor is (500, 440), with an empty candidate list: the ratio 2.0 is    *)
(* not above 2.0 and takes the 0.22 bucket.                                *)
C4_Fallback ==
    Scenario1000x2000 => face_center_x = 500 /\ face_center_y = 440 /\ faces = <<>>

(* C4, witness: the fallback has run on the 1000 x 2000 canvas.            *)
C4_Witness == Scenario1000x2000 /\ face_center_y = 440

(* The area two rectangles share, counted from the columns and the rows    *)
(* both cover.                                                             *)
IntersectionArea(a, b) ==
    Cardinality((a.x .. (a.x + a.width - 1)) \cap (b.x .. (b.x + b.width - 1)))
    * Cardinality((a.y .. (a.y + a.height - 1)) \cap (b.y .. (b.y + b.height - 1)))

SmallerArea(a, b) == Min2(a.width * a.height, b.width * b.height)

(* C5. Dedup correctness: of exactly two candidates, in either order, one  *)
(* is retained if they share more than half the smaller one's area, and    *)
(* both if they share less than half of it.                                *)
C5_DedupCorrectness ==
    (pc = "plan" /\ Len(all_faces) = 2) =>
        LET a == all_faces[1]
            b == all_faces[2]
        IN  /\ 2 * IntersectionArea(a, b) > SmallerArea(a, b)
                 => Len(faces) = 1 /\ faces[1] \in {a, b}
            /\ 2 * IntersectionArea(a, b) < SmallerArea(a, b)
                 => faces = <<a, b>>

(* C5, witness: two different candidates, neither inside the other, that   *)
(* share more than half of the smaller one and collapsed to one.           *)
C5_Witness ==
    /\ pc = "plan" /\ Len(all_faces) = 2 /\ Len(faces) = 1
    /\ all_faces[1] # all_faces[2]
    /\ IntersectionArea(all_faces[1], all_faces[2])
         < SmallerArea(all_faces[1], all_faces[2])

(* C6 as stated. Arc coverage: the n >= 1 character angles are strictly    *)
(* increasing, consecutive ones differ by 270 / n degrees (12 units), and  *)
(* they span 270 degrees (12 * n units).                                   *)
C6_ArcCoverage_Original ==
    pc = "composite" =>
        LET n == Len(angles)
        IN  /\ n >= 1
            /\ \A i \in 1..(n - 1) :
                  angles[i] < angles[i + 1] /\ angles[i + 1] - angles[i] = 12
            /\ angles[n] - angles[1] = 12 * n

(* C6 as amended. The n >= 1 character angles are strictly increasing,     *)
(* consecutive ones differ by 270 / n degrees, and from the first to the   *)
(* last they span 270 * (n - 1) / n degrees (12 * (n - 1) units), starting *)
(* at -67.5 degrees (-3 * n units).                                        *)
C6_ArcCoverage ==
    pc = "composite" =>
        LET n == Len(angles)
        IN  /\ n >= 1 /\ n = Len(display_text)
            /\ \A i \in 1..(n - 1) :
                  angles[i] < angles[i + 1] /\ angles[i + 1] - angles[i] = 12
            /\ angles[1] = -3 * n
            /\ angles[n] - angles[1] = 12 * (n - 1)

(* C6, witness: a text of ten characters is laid out, 27 degrees apart,    *)
(* over 243 degrees.                                                       *)
C6_Witness == pc = "composite" /\ Len(angles) = 10 /\ angles[10] - angles[1] = 108

(* C7 as stated. Idempotence of normalization: formatting the formatted    *)
(* text returns it unchanged.                                              *)
C7_Idempotence_Original ==
    pc \in {"layout", "composite"} => format_text(display_text) = display_text

(* C7 as amended. A text that mentions both 'support' and 'amit' is        *)
(* formatted to the fixed phrase, which formatting leaves unchanged; any   *)
(* other text t is formatted to '#' and t upper-cased, and formatting that *)
(* again prefixes a second '#'.                                            *)
C7_Idempotence ==
    pc \in {"layout", "composite"} =>
        IF mentions_support_amit(text)
        THEN /\ display_text = canonical_phrase
             /\ format_text(display_text) = display_text
        ELSE /\ display_text = <<"#">> \o upper(text)
             /\ format_text(display_text) = <<"#">> \o display_text

(* C7, witness: a text that mentions both words has been formatted, and    *)
(* formatting it again changes nothing.                                    *)
C7_Witness ==
    /\ pc = "layout" /\ mentions_support_amit(text)
    /\ text # canonical_phrase
    /\ format_text(display_text) = display_text

(* C8. Detection failure is recovered locally: process_image never returns *)
(* None because a step of face location, the conversion of the canvas for  *)
(* the detector included, failed.                                          *)
C8_DetectionRecovered == result = "None" => error # "convert"

(* C9. Anchor selection: when the passes yield candidates, the anchor is   *)
(* the centre of the retained candidate of the largest bounding-box area,  *)
(* the first of them in detection order when several are largest.          *)
C9_AnchorSelection ==
    (pc = "plan" /\ all_faces # <<>>) =>
        /\ faces # <<>>
        /\ \E k \in 1..Len(faces) :
              /\ \A j \in 1..Len(faces) :
                    faces[j].width * faces[j].height <= faces[k].width * faces[k].height
              /\ \A j \in 1..(k - 1) :
                    faces[j].width * faces[j].height < faces[k].width * faces[k].height
              /\ face_center_x = faces[k].x + faces[k].width \div 2
              /\ face_center_y = faces[k].y + faces[k].height \div 2

(* C9, witness: two retained candidates of the same, largest area and      *)
(* different centres; the anchor is the centre of the earlier one.         *)
C9_Witness ==
    /\ pc = "plan" /\ Len(faces) >= 2
    /\ \E j, k \in 1..Len(faces) :
          /\ j < k
          /\ faces[j].area = faces[k].area
          /\ \A m \in 1..Len(faces) : faces[m].area <= faces[j].area
          /\ faces[j].x + faces[j].width \div 2 # faces[k].x + faces[k].width \div 2
          /\ face_center_x = faces[j].x + faces[j].width \div 2

(* C10. Correction shrinks, never grows: when validate_circle_bounds       *)
(* rejects the first-pass outer radius, the recomputed outer radius is at  *)
(* most the first-pass one.                                                *)
C10_CorrectionShrinks == (RingPlanned /\ corrected) => outer_radius <= first_outer_radius

(* The two rectangles share more than half the smaller one's area.         *)
SharesOverHalf(a, b) == 2 * IntersectionArea(a, b) > SmallerArea(a, b)

(* C11. Pairwise non-duplication: after the deduplication loop no two      *)
(* retained candidates share more than half the smaller one's area, the    *)
(* retained list is a subsequence of the input in first-seen order, and it *)
(* is non-empty whenever the input is.                                     *)
C11_PairwiseNonDuplication ==
    pc = "plan" =>
        /\ \A j, k \in 1..Len(faces) : j # k => ~SharesOverHalf(faces[j], faces[k])
        /\ \E f \in [1..Len(faces) -> 1..Len(all_faces)] :
              /\ \A j \in 1..Len(faces) : faces[j] = all_faces[f[j]]
              /\ \A j, k \in 1..Len(faces) : j < k => f[j] < f[k]
        /\ all_faces # <<>> => faces # <<>>

(* C11, witness: of three candidates the third duplicates the first but    *)
(* not the second; the first two are retained, in their order.             *)
C11_Witness ==
    /\ pc = "plan" /\ Len(all_faces) = 3
    /\ faces = <<all_faces[1], all_faces[2]>>
    /\ SharesOverHalf(all_faces[3], all_faces[1])
    /\ ~SharesOverHalf(all_faces[3], all_faces[2])

====
